---- MODULE Spec2Model ----
(***************************************************************************)
(* Model of the silhouette payments engine: the transaction store          *)
(* (ledger.rs, tx_manager), the client account store (ledger.rs,           *)
(* client_manager), the dispatch rules of PaymentsEngine (ledger.rs,       *)
(* engine) and the read/process/report loop of the binary (bin/main.rs).   *)
(* Amounts are integers in units of 10^-4, the scale every ingested        *)
(* amount has after deserialize_decimal; BigDecimal arithmetic is exact,   *)
(* so the model uses unbounded integers.                                   *)
(***************************************************************************)
EXTENDS Integers, Sequences, FiniteSets, TLC

(* ---------------------------- bounds ----------------------------------- *)
NumClients == 2
NumTx == 2
MaxAmount == 1
MaxRows == 3

MaxScale == 5
MaxOffset == 25

Clients == 1..NumClients
TxIds == 1..NumTx

(* Option<BigDecimal>: None is the empty sequence, Some(a) is <<a>>. *)
None == << >>
Some(a) == <<a>>
(* Amounts in units of 10^-4: blank, -0.0001, 0 and the positive multiples *)
(* of 0.0002, so that a balance can lie below a negative amount.           *)
Amounts ==
  {None} \cup {Some(-1), Some(0)} \cup {Some(2 * k) : k \in 1..MaxAmount}

TxType == {"Deposit", "Withdrawal", "Dispute", "Resolve", "Chargeback"}

(* ------------------------------ decimals ------------------------------- *)
(* The scale deserialize_decimal rounds to. *)
AmountScale == 4

(* The text of an amount column: blank, text that is no decimal number, or *)
(* a decimal number, held as BigDecimal holds it: digits * 10^-scale.      *)
Blank == [kind |-> "blank", digits |-> 0, scale |-> 0]
Junk == [kind |-> "junk", digits |-> 0, scale |-> 0]
Number(digits, scale) == [kind |-> "number", digits |-> digits, scale |-> scale]

(* The amount texts examined: blank, junk, and at every scale the numbers  *)
(* from 1 up to MaxOffset units of the last digit above 1, and their       *)
(* negatives.                                                              *)
AmountText ==
  {Blank, Junk}
  \cup {Number(sign * (10 ^ scale + offset), scale) :
          sign \in {-1, 1}, scale \in 0..MaxScale, offset \in 0..MaxOffset}

Abs(n) == IF n < 0 THEN 0 - n ELSE n

(* with_scale_round rounding a tie away from zero (RoundingMode::HalfUp). *)
with_scale_round_HalfUp(digits, scale, new_scale) ==
  IF new_scale >= scale
  THEN digits * 10 ^ (new_scale - scale)
  ELSE LET divisor == 10 ^ (scale - new_scale)
           quotient == Abs(digits) \div divisor
           remainder == Abs(digits) % divisor
           rounded == IF 2 * remainder >= divisor THEN quotient + 1
                      ELSE quotient
       IN IF digits < 0 THEN 0 - rounded ELSE rounded

(* BigDecimal::with_scale_round(new_scale, RoundingMode::HalfEven): the    *)
(* digits of the value at new_scale.                                       *)
with_scale_round(digits, scale, new_scale) ==
  IF new_scale >= scale
  THEN digits * 10 ^ (new_scale - scale)
  ELSE LET divisor == 10 ^ (scale - new_scale)
           quotient == Abs(digits) \div divisor
           remainder == Abs(digits) % divisor
           rounded == IF 2 * remainder > divisor THEN quotient + 1
                      ELSE IF 2 * remainder < divisor THEN quotient
                      ELSE quotient + (quotient % 2)
       IN IF digits < 0 THEN 0 - rounded ELSE rounded

(* Result<Option<BigDecimal>, D::Error>, the value in units of 10^-4. *)
NotParsed == [res |-> "None", value |-> None]
ParsedOk(value) == [res |-> "Ok", value |-> value]
ParsedErr == [res |-> "Err", value |-> None]

deserialize_decimal(string) ==
  IF string.kind = "blank" THEN ParsedOk(None)
  ELSE IF string.kind = "junk" THEN ParsedErr
  ELSE ParsedOk(Some(with_scale_round(string.digits, string.scale,
                                      AmountScale)))

(* Records with TxIds drawn from txids.  The amount column of a Dispute,    *)
(* Resolve or Chargeback row is never read by the engine, so these records *)
(* are drawn with a blank amount.                                          *)
Records(txids) ==
  [type : {"Deposit", "Withdrawal"}, client : Clients, tx : txids,
   amount : Amounts]
  \cup [type : {"Dispute", "Resolve", "Chargeback"}, client : Clients,
        tx : txids, amount : {None}]

(* Rows as csv_stream yields them. *)
CSVRecord == Records(TxIds)

(* The records a call is examined with: those of the rows and those with   *)
(* one more TxId, which no row has used.                                   *)
CallRecord == Records(1..(NumTx + 1))

(* ---------------------------- TxResult --------------------------------- *)
Ok == <<"Ok">>
InvalidClinetId == <<"InvalidClinetId">>
InsufficientFunds == <<"InsufficientFunds">>
AccountLocked == <<"AccountLocked">>
MissingAmount == <<"MissingAmount">>
InvalidAmount == <<"InvalidAmount">>
NotStorable(type) == <<"NotStorable", type>>
MissingTransaction(tx) == <<"MissingTransaction", tx>>
DuplicateTransactionId(tx) == <<"DuplicateTransactionId", tx>>

(* ------------------------- client_manager ------------------------------ *)
ClientAccountDefault == [available |-> 0, held |-> 0, status |-> "Active"]

total(account) == account.available + account.held

is_locked(account) == account.status = "Locked"

(* get_or_initialise that stores a fresh default account on every call. *)
get_or_initialise_AlwaysDefault(accts, client) ==
  [c \in DOMAIN accts \cup {client} |->
     IF c = client THEN ClientAccountDefault ELSE accts[c]]

(* The accounts map after entry(client).or_default(). *)
get_or_initialise(accts, client) ==
  IF client \in DOMAIN accts THEN accts
  ELSE accts @@ (client :> ClientAccountDefault)

(* ----------------------------- transaction ----------------------------- *)
(* can_be_disputed accepting every status but Disputed. *)
can_be_disputed_NotDisputed(transaction, record) ==
  IF transaction.client # record.client THEN FALSE
  ELSE transaction.status # "Disputed"

can_be_disputed(transaction, record) ==
  IF transaction.client # record.client THEN FALSE
  ELSE transaction.status \in {"Processed", "Resolved"}

is_disputed(transaction) == transaction.status = "Disputed"

(* TryFrom<CSVRecord> for Transaction: res is Ok and t the transaction, or *)
(* res is the error.                                                       *)
try_from(value) ==
  IF value.type \in {"Deposit", "Withdrawal"}
  THEN IF value.amount # None /\ value.amount[1] < 0
       THEN [res |-> InvalidAmount, t |-> << >>]
       ELSE IF value.amount # None
       THEN [res |-> Ok,
             t |-> [tx |-> value.tx, client |-> value.client,
                    amount |-> value.amount[1], status |-> "Processed",
                    type |-> value.type]]
       ELSE [res |-> MissingAmount, t |-> << >>]
  ELSE [res |-> NotStorable(value.type), t |-> << >>]

(* ------------------------------ tx_manager ----------------------------- *)
insert(txs, transaction) ==
  IF transaction.tx \in DOMAIN txs THEN txs
  ELSE txs @@ (transaction.tx :> transaction)

exists(txs, tx) == tx \in DOMAIN txs

(* Option<&Transaction>: the set of the stored transaction, if any. *)
get(txs, tx) == IF tx \in DOMAIN txs THEN {txs[tx]} ELSE {}

(* set_status dropping the entry instead of updating it in place. *)
set_status_Removes(txs, tx, status) ==
  IF tx \in DOMAIN txs
  THEN [txs |-> [t \in DOMAIN txs \ {tx} |-> txs[t]], res |-> Ok]
  ELSE [txs |-> txs, res |-> MissingTransaction(tx)]

set_status(txs, tx, status) ==
  IF tx \in DOMAIN txs
  THEN [txs |-> [txs EXCEPT ![tx].status = status], res |-> Ok]
  ELSE [txs |-> txs, res |-> MissingTransaction(tx)]

(* -------------------------------- engine ------------------------------- *)
(* Every process_* operator returns the two stores after the call and the  *)
(* TxResult of the call.                                                   *)
Ret(accts, txs, res) == [accounts |-> accts, transactions |-> txs, res |-> res]

(* process_deposit without the exists() check. *)
process_deposit_NoDuplicateCheck(accts, txs, record) ==
  LET a1 == get_or_initialise(accts, record.client) IN
  IF is_locked(a1[record.client])
  THEN Ret(a1, txs, AccountLocked)
  ELSE LET r == try_from(record) IN
       IF r.res # Ok
       THEN Ret(a1, txs, r.res)
       ELSE Ret([a1 EXCEPT ![record.client].available = @ + r.t.amount],
                insert(txs, r.t), Ok)

(* process_deposit without the is_locked() check. *)
process_deposit_NoLockCheck(accts, txs, record) ==
  IF exists(txs, record.tx)
  THEN Ret(accts, txs, DuplicateTransactionId(record.tx))
  ELSE LET a1 == get_or_initialise(accts, record.client)
           r == try_from(record)
       IN IF r.res # Ok
          THEN Ret(a1, txs, r.res)
          ELSE Ret([a1 EXCEPT ![record.client].available = @ + r.t.amount],
                   insert(txs, r.t), Ok)

process_deposit(accts, txs, record) ==
  IF exists(txs, record.tx)
  THEN Ret(accts, txs, DuplicateTransactionId(record.tx))
  ELSE LET a1 == get_or_initialise(accts, record.client) IN
       IF is_locked(a1[record.client])
       THEN Ret(a1, txs, AccountLocked)
       ELSE LET r == try_from(record) IN
            IF r.res # Ok
            THEN Ret(a1, txs, r.res)
            ELSE Ret([a1 EXCEPT ![record.client].available = @ + r.t.amount],
                     insert(txs, r.t), Ok)

(* process_withdrawal without the available < amount check. *)
process_withdrawal_NoFundsCheck(accts, txs, record) ==
  IF exists(txs, record.tx)
  THEN Ret(accts, txs, DuplicateTransactionId(record.tx))
  ELSE LET a1 == get_or_initialise(accts, record.client) IN
       IF is_locked(a1[record.client])
       THEN Ret(a1, txs, AccountLocked)
       ELSE LET r == try_from(record) IN
            IF r.res # Ok
            THEN Ret(a1, txs, r.res)
            ELSE Ret([a1 EXCEPT ![record.client].available = @ - r.t.amount],
                     insert(txs, r.t), Ok)

(* process_withdrawal debiting the account before it compares. *)
process_withdrawal_DebitThenCheck(accts, txs, record) ==
  IF exists(txs, record.tx)
  THEN Ret(accts, txs, DuplicateTransactionId(record.tx))
  ELSE LET a1 == get_or_initialise(accts, record.client) IN
       IF is_locked(a1[record.client])
       THEN Ret(a1, txs, AccountLocked)
       ELSE LET r == try_from(record) IN
            IF r.res # Ok
            THEN Ret(a1, txs, r.res)
            ELSE LET a2 == [a1 EXCEPT ![record.client].available =
                                          @ - r.t.amount]
                 IN IF a2[record.client].available < 0
                    THEN Ret(a2, txs, InsufficientFunds)
                    ELSE Ret(a2, insert(txs, r.t), Ok)

(* process_withdrawal crediting the amount instead of debiting it. *)
process_withdrawal_Credits(accts, txs, record) ==
  IF exists(txs, record.tx)
  THEN Ret(accts, txs, DuplicateTransactionId(record.tx))
  ELSE LET a1 == get_or_initialise(accts, record.client) IN
       IF is_locked(a1[record.client])
       THEN Ret(a1, txs, AccountLocked)
       ELSE IF a1[record.client].available
                 < (IF record.amount # None THEN record.amount[1] ELSE 0)
       THEN Ret(a1, txs, InsufficientFunds)
       ELSE LET r == try_from(record) IN
            IF r.res # Ok
            THEN Ret(a1, txs, r.res)
            ELSE Ret([a1 EXCEPT ![record.client].available = @ + r.t.amount],
                     insert(txs, r.t), Ok)

process_withdrawal(accts, txs, record) ==
  IF exists(txs, record.tx)
  THEN Ret(accts, txs, DuplicateTransactionId(record.tx))
  ELSE LET a1 == get_or_initialise(accts, record.client) IN
       IF is_locked(a1[record.client])
       THEN Ret(a1, txs, AccountLocked)
       ELSE IF a1[record.client].available
                 < (IF record.amount # None THEN record.amount[1] ELSE 0)
       THEN Ret(a1, txs, InsufficientFunds)
       ELSE LET r == try_from(record) IN
            IF r.res # Ok
            THEN Ret(a1, txs, r.res)
            ELSE Ret([a1 EXCEPT ![record.client].available = @ - r.t.amount],
                     insert(txs, r.t), Ok)

(* process_dispute without the comparison of the two client ids (the one   *)
(* in can_be_disputed included).                                           *)
process_dispute_NoClientCheck(accts, txs, record) ==
  IF get(txs, record.tx) = {}
  THEN Ret(accts, txs, MissingTransaction(record.tx))
  ELSE LET transaction == txs[record.tx] IN
       IF transaction.type # "Deposit"
          \/ transaction.status \notin {"Processed", "Resolved"}
       THEN Ret(accts, txs, Ok)
       ELSE LET a1 == get_or_initialise(accts, record.client)
                a2 == [a1 EXCEPT ![record.client].available =
                                     @ - transaction.amount,
                                 ![record.client].held =
                                     @ + transaction.amount]
                s == set_status(txs, transaction.tx, "Disputed")
            IN Ret(a2, s.txs, s.res)

(* process_dispute crediting held without debiting available. *)
process_dispute_NoDebit(accts, txs, record) ==
  IF get(txs, record.tx) = {}
  THEN Ret(accts, txs, MissingTransaction(record.tx))
  ELSE LET transaction == txs[record.tx] IN
       IF transaction.client # record.client
       THEN Ret(accts, txs, InvalidClinetId)
       ELSE IF transaction.type # "Deposit"
               \/ ~can_be_disputed(transaction, record)
       THEN Ret(accts, txs, Ok)
       ELSE LET a1 == get_or_initialise(accts, record.client)
                a2 == [a1 EXCEPT ![record.client].held =
                                     @ + transaction.amount]
                s == set_status(txs, transaction.tx, "Disputed")
            IN Ret(a2, s.txs, s.res)

process_dispute(accts, txs, record) ==
  IF get(txs, record.tx) = {}
  THEN Ret(accts, txs, MissingTransaction(record.tx))
  ELSE LET transaction == txs[record.tx] IN
       IF transaction.client # record.client
       THEN Ret(accts, txs, InvalidClinetId)
       ELSE IF transaction.type # "Deposit"
               \/ ~can_be_disputed(transaction, record)
       THEN Ret(accts, txs, Ok)
       ELSE LET a1 == get_or_initialise(accts, record.client)
                a2 == [a1 EXCEPT ![record.client].available =
                                     @ - transaction.amount,
                                 ![record.client].held =
                                     @ + transaction.amount]
                s == set_status(txs, transaction.tx, "Disputed")
            IN Ret(a2, s.txs, s.res)

(* process_resolve reporting a transaction that is not Disputed as         *)
(* missing.                                                                *)
process_resolve_UndisputedIsMissing(accts, txs, record) ==
  IF get(txs, record.tx) = {} \/ ~is_disputed(txs[record.tx])
  THEN Ret(accts, txs, MissingTransaction(record.tx))
  ELSE LET transaction == txs[record.tx]
           a1 == get_or_initialise(accts, record.client)
           a2 == [a1 EXCEPT ![record.client].available =
                                @ + transaction.amount,
                            ![record.client].held =
                                @ - transaction.amount]
           s == set_status(txs, transaction.tx, "Resolved")
       IN Ret(a2, s.txs, s.res)

(* process_resolve without the is_disputed check: it releases the amount  *)
(* of a transaction in any status.                                         *)
process_resolve_NoDisputedCheck(accts, txs, record) ==
  IF get(txs, record.tx) = {}
  THEN Ret(accts, txs, MissingTransaction(record.tx))
  ELSE LET transaction == txs[record.tx]
           a1 == get_or_initialise(accts, record.client)
           a2 == [a1 EXCEPT ![record.client].available =
                                @ + transaction.amount,
                            ![record.client].held =
                                @ - transaction.amount]
           s == set_status(txs, transaction.tx, "Resolved")
       IN Ret(a2, s.txs, s.res)

process_resolve(accts, txs, record) ==
  IF get(txs, record.tx) = {}
  THEN Ret(accts, txs, MissingTransaction(record.tx))
  ELSE LET transaction == txs[record.tx] IN
       IF ~is_disputed(transaction)
       THEN Ret(accts, txs, Ok)
       ELSE LET a1 == get_or_initialise(accts, record.client)
                a2 == [a1 EXCEPT ![record.client].available =
                                     @ + transaction.amount,
                                 ![record.client].held =
                                     @ - transaction.amount]
                s == set_status(txs, transaction.tx, "Resolved")
            IN Ret(a2, s.txs, s.res)

(* process_chargeback locking the named account before it looks the       *)
(* transaction up.                                                         *)
process_chargeback_LockThenCheck(accts, txs, record) ==
  LET a1 == get_or_initialise(accts, record.client)
      a2 == [a1 EXCEPT ![record.client].status = "Locked"]
  IN IF get(txs, record.tx) = {}
     THEN Ret(a2, txs, MissingTransaction(record.tx))
     ELSE LET transaction == txs[record.tx] IN
          IF transaction.client # record.client
          THEN Ret(accts, txs, InvalidClinetId)
          ELSE IF ~is_disputed(transaction) \/ transaction.type # "Deposit"
          THEN Ret(accts, txs, Ok)
          ELSE LET a3 == [a2 EXCEPT ![record.client].held =
                                        @ - transaction.amount]
                   s == set_status(txs, transaction.tx, "Chargedback")
               IN Ret(a3, s.txs, s.res)

(* process_chargeback that does not lock the account. *)
process_chargeback_NoLock(accts, txs, record) ==
  IF get(txs, record.tx) = {}
  THEN Ret(accts, txs, MissingTransaction(record.tx))
  ELSE LET transaction == txs[record.tx] IN
       IF transaction.client # record.client
       THEN Ret(accts, txs, InvalidClinetId)
       ELSE IF ~is_disputed(transaction) \/ transaction.type # "Deposit"
       THEN Ret(accts, txs, Ok)
       ELSE LET a1 == get_or_initialise(accts, record.client)
                a2 == [a1 EXCEPT ![record.client].held =
                                     @ - transaction.amount]
                s == set_status(txs, transaction.tx, "Chargedback")
            IN Ret(a2, s.txs, s.res)

(* process_chargeback without the comparison of the two client ids: it    *)
(* locks the account the record names.                                     *)
process_chargeback_NoClientCheck(accts, txs, record) ==
  IF get(txs, record.tx) = {}
  THEN Ret(accts, txs, MissingTransaction(record.tx))
  ELSE LET transaction == txs[record.tx] IN
       IF ~is_disputed(transaction) \/ transaction.type # "Deposit"
       THEN Ret(accts, txs, Ok)
       ELSE LET a1 == get_or_initialise(accts, record.client)
                a2 == [a1 EXCEPT ![record.client].status = "Locked",
                                 ![record.client].held =
                                     @ - transaction.amount]
                s == set_status(txs, transaction.tx, "Chargedback")
            IN Ret(a2, s.txs, s.res)

process_chargeback(accts, txs, record) ==
  IF get(txs, record.tx) = {}
  THEN Ret(accts, txs, MissingTransaction(record.tx))
  ELSE LET transaction == txs[record.tx] IN
       IF transaction.client # record.client
       THEN Ret(accts, txs, InvalidClinetId)
       ELSE IF ~is_disputed(transaction) \/ transaction.type # "Deposit"
       THEN Ret(accts, txs, Ok)
       ELSE LET a1 == get_or_initialise(accts, record.client)
                a2 == [a1 EXCEPT ![record.client].status = "Locked",
                                 ![record.client].held =
                                     @ - transaction.amount]
                s == set_status(txs, transaction.tx, "Chargedback")
            IN Ret(a2, s.txs, s.res)

process_csv_record(accts, txs, record) ==
  CASE record.type = "Deposit" -> process_deposit(accts, txs, record)
    [] record.type = "Withdrawal" -> process_withdrawal(accts, txs, record)
    [] record.type = "Dispute" -> process_dispute(accts, txs, record)
    [] record.type = "Resolve" -> process_resolve(accts, txs, record)
    [] record.type = "Chargeback" -> process_chargeback(accts, txs, record)

(* -------------------------------- output ------------------------------- *)
RECURSIVE OutputRows(_, _)
OutputRows(accts, c) ==
  IF c > NumClients THEN << >>
  ELSE (IF c \in DOMAIN accts
        THEN << [client |-> c, available |-> accts[c].available,
                 held |-> accts[c].held, total |-> total(accts[c]),
                 locked |-> is_locked(accts[c])] >>
        ELSE << >>) \o OutputRows(accts, c + 1)

(* One OutputRecord per account, in the BTreeMap's key order. *)
write_accounts_to_stdout(accts) == OutputRows(accts, 1)

(* ------------------------------- state --------------------------------- *)
VARIABLES
  accounts,      \* ClientAccountManager.accounts
  transactions,  \* TxManager.transactions
  pc,            \* main: "loop", "done" (returned Ok), "failed" (returned Err)
  rowsLeft,      \* data rows of the input not yet yielded by csv_stream
  stderr,        \* the kind of line main wrote last to the diagnostic channel
  stdout,        \* rows written to the primary output
  string,        \* deserialize_decimal: the text of the amount column
  parsed         \* deserialize_decimal: what it returned for string

vars == <<accounts, transactions, pc, rowsLeft, stderr, stdout, string, parsed>>

NoLine == ""
ReadError == "Error reading csv"
ProcessingError == "Error processing Transaction due to"

Init ==
  /\ accounts = << >>
  /\ transactions = << >>
  /\ pc = "loop"
  /\ rowsLeft \in 0..MaxRows
  /\ stderr = NoLine
  /\ stdout = << >>
  /\ string = Blank
  /\ parsed = NotParsed

(* The Ok(record) arm of the loop of main. *)
Process(record) ==
  /\ pc = "loop"
  /\ rowsLeft > 0
  /\ LET r == process_csv_record(accounts, transactions, record) IN
       /\ accounts' = r.accounts
       /\ transactions' = r.transactions
       /\ stderr' = IF r.res # Ok THEN ProcessingError ELSE stderr
  /\ rowsLeft' = rowsLeft - 1
  /\ UNCHANGED <<pc, stdout, string, parsed>>

Deposit == \E record \in CSVRecord : record.type = "Deposit" /\ Process(record)

Withdrawal == \E record \in CSVRecord : record.type = "Withdrawal" /\ Process(record)

Dispute == \E record \in CSVRecord : record.type = "Dispute" /\ Process(record)

Resolve == \E record \in CSVRecord : record.type = "Resolve" /\ Process(record)

Chargeback == \E record \in CSVRecord : record.type = "Chargeback" /\ Process(record)

(* The Err(err) arm of the loop of main: the row does not deserialize. *)
BadRow ==
  /\ pc = "loop"
  /\ rowsLeft > 0
  /\ stderr' = ReadError
  /\ rowsLeft' = rowsLeft - 1
  /\ pc' = "failed"
  /\ UNCHANGED <<accounts, transactions, stdout, string, parsed>>

(* The stream is exhausted: main writes the report and returns. *)
Report ==
  /\ pc = "loop"
  /\ rowsLeft = 0
  /\ stdout' = write_accounts_to_stdout(accounts)
  /\ pc' = "done"
  /\ UNCHANGED <<accounts, transactions, rowsLeft, stderr, string, parsed>>

Next ==
  \/ Deposit
  \/ Withdrawal
  \/ Dispute
  \/ Resolve
  \/ Chargeback
  \/ BadRow
  \/ Report

Spec == Init /\ [][Next]_vars

(* deserialize_decimal on its own: one amount text, deserialized once. *)
DecimalInit ==
  /\ accounts = << >>
  /\ transactions = << >>
  /\ pc = "loop"
  /\ rowsLeft = 0
  /\ stderr = NoLine
  /\ stdout = << >>
  /\ string \in AmountText
  /\ parsed = NotParsed

Deserialize ==
  /\ parsed = NotParsed
  /\ parsed' = deserialize_decimal(string)
  /\ UNCHANGED <<accounts, transactions, pc, rowsLeft, stderr, stdout, string>>

DecimalNext == Deserialize

DecimalSpec == DecimalInit /\ [][DecimalNext]_vars

(* ------------------------- reading the stores -------------------------- *)
StorableTypes == {"Deposit", "Withdrawal"}

(* What get_or_initialise(client) shows of an account, present or not. *)
AvailableOf(accts, c) == get_or_initialise(accts, c)[c].available
HeldOf(accts, c) == get_or_initialise(accts, c)[c].held
LockedIn(accts, c) == c \in DOMAIN accts /\ is_locked(accts[c])

(* The call process_csv_record(record) made in the current state: the two  *)
(* stores after it and what it returns.  Every Process step is one such    *)
(* call, so a property of Call(record) for all records, in all reachable   *)
(* states, is a property of every step the engine can take.                *)
Call(record) == process_csv_record(accounts, transactions, record)

Unchanged(ret) == ret.accounts = accounts /\ ret.transactions = transactions

(* The engine as a run leaves it when its input ends.  An input may end    *)
(* after any row, so these states carry every pair of stores the engine    *)
(* can reach; the claims about a call are evaluated in them.               *)
InputConsumed == pc = "loop" /\ rowsLeft = 0

(* ------------------------------- claims -------------------------------- *)

(* C1: a Deposit or Withdrawal whose TxId is already in the transaction    *)
(* store fails with DuplicateTransactionId and leaves both stores as they  *)
(* were.                                                                   *)
C1_DuplicateRejected ==
  InputConsumed => \A record \in CallRecord :
    LET r == Call(record) IN
    (record.type \in StorableTypes /\ record.tx \in DOMAIN transactions)
    => (/\ r.res = DuplicateTransactionId(record.tx)
        /\ Unchanged(r))

C1_Witness ==
  \E record \in CallRecord :
    /\ record.type \in StorableTypes
    /\ record.tx \in DOMAIN transactions
    /\ record.amount # None /\ record.amount[1] > 0
    /\ ~LockedIn(accounts, record.client)
    /\ Call(record).res = DuplicateTransactionId(record.tx)

(* C2 (as claimed): the available balance of every account is at least     *)
(* zero in every reachable state.                                          *)
C2_AvailableNeverNegative ==
  \A c \in DOMAIN accounts : accounts[c].available >= 0

(* C2 (amended): an account's available balance is lowered to a negative   *)
(* value only by a successful Dispute transition of a deposit of that      *)
(* client; no Deposit, Withdrawal, Resolve or Chargeback record does it.   *)
C2_OnlyDisputeMakesAvailableNegative ==
  InputConsumed => \A record \in CallRecord :
    LET r == Call(record) IN \A c \in Clients :
    (/\ AvailableOf(r.accounts, c) < 0
     /\ AvailableOf(r.accounts, c) < AvailableOf(accounts, c))
    => (/\ record.type = "Dispute"
        /\ record.client = c
        /\ r.res = Ok
        /\ record.tx \in DOMAIN transactions
        /\ transactions[record.tx].client = c
        /\ transactions[record.tx].type = "Deposit"
        /\ transactions[record.tx].status \in {"Processed", "Resolved"}
        /\ r.transactions[record.tx].status = "Disputed")

C2_Witness ==
  \E t \in DOMAIN transactions :
    /\ transactions[t].type = "Deposit"
    /\ transactions[t].status = "Disputed"
    /\ transactions[t].client \in DOMAIN accounts
    /\ accounts[transactions[t].client].available < 0

(* C3 (as claimed): every Deposit or Withdrawal naming a locked account    *)
(* fails with AccountLocked and changes neither store.                     *)
C3_LockedAlwaysAccountLocked ==
  InputConsumed => \A record \in CallRecord :
    LET r == Call(record) IN
    (record.type \in StorableTypes /\ LockedIn(accounts, record.client))
    => (r.res = AccountLocked /\ Unchanged(r))

(* C3 (amended): once an account is locked it stays locked, and every      *)
(* Deposit or Withdrawal naming it fails and changes neither store: with   *)
(* DuplicateTransactionId when its TxId is already stored, with            *)
(* AccountLocked otherwise.                                                *)
C3_LockedRejectsDepositsAndWithdrawals ==
  InputConsumed => \A record \in CallRecord :
    LET r == Call(record) IN
    /\ \A c \in Clients :
         LockedIn(accounts, c) => LockedIn(r.accounts, c)
    /\ (record.type \in StorableTypes /\ LockedIn(accounts, record.client))
       => (/\ r.res = IF record.tx \in DOMAIN transactions
                                 THEN DuplicateTransactionId(record.tx)
                                 ELSE AccountLocked
           /\ Unchanged(r))

C3_Witness ==
  \E record \in CallRecord :
    /\ record.type \in StorableTypes
    /\ record.amount # None /\ record.amount[1] > 0
    /\ LockedIn(accounts, record.client)
    /\ \E t \in DOMAIN transactions :
         /\ transactions[t].client = record.client
         /\ transactions[t].status = "Chargedback"
    /\ Call(record).res = AccountLocked

(* C4: held increases only in a successful Dispute transition of a deposit *)
(* of that account's client, and decreases only in a Resolve or Chargeback *)
(* of a Disputed transaction of that same client, by its stored amount.    *)
C4_HeldMovesOnlyWithOwnTransaction ==
  InputConsumed => \A record \in CallRecord :
    LET r == Call(record) IN \A c \in Clients :
    /\ HeldOf(r.accounts, c) > HeldOf(accounts, c)
       => (/\ record.type = "Dispute"
           /\ r.res = Ok
           /\ record.tx \in DOMAIN transactions
           /\ transactions[record.tx].client = c
           /\ transactions[record.tx].type = "Deposit"
           /\ transactions[record.tx].status \in {"Processed", "Resolved"}
           /\ r.transactions[record.tx].status = "Disputed")
    /\ HeldOf(r.accounts, c) < HeldOf(accounts, c)
       => (/\ record.type \in {"Resolve", "Chargeback"}
           /\ record.tx \in DOMAIN transactions
           /\ transactions[record.tx].status = "Disputed"
           /\ transactions[record.tx].client = c
           /\ HeldOf(accounts, c) - HeldOf(r.accounts, c)
                = transactions[record.tx].amount)

(* C5: a call of process_csv_record that returns an error leaves both      *)
(* stores exactly as they were, the set of account entries included.       *)
C5_ErrorsLeaveStoresUnchanged ==
  InputConsumed => \A record \in CallRecord :
    LET r == Call(record) IN
    r.res # Ok => Unchanged(r)

(* C6: a Withdrawal with an unused TxId on a non-locked account whose      *)
(* available balance is below the requested amount fails with              *)
(* InsufficientFunds; no balance changes and no transaction is stored.     *)
C6_InsufficientFunds ==
  InputConsumed => \A record \in CallRecord :
    LET r == Call(record) IN
    (/\ record.type = "Withdrawal"
     /\ record.tx \notin DOMAIN transactions
     /\ ~LockedIn(accounts, record.client)
     /\ record.amount # None
     /\ AvailableOf(accounts, record.client) < record.amount[1])
    => (/\ r.res = InsufficientFunds
        /\ \A c \in Clients :
             /\ AvailableOf(r.accounts, c) = AvailableOf(accounts, c)
             /\ HeldOf(r.accounts, c) = HeldOf(accounts, c)
        /\ r.transactions = transactions)

C6_Witness ==
  \E record \in CallRecord :
    /\ record.type = "Withdrawal"
    /\ record.tx \notin DOMAIN transactions
    /\ record.client \in DOMAIN accounts
    /\ ~LockedIn(accounts, record.client)
    /\ record.amount # None
    /\ \E t \in DOMAIN transactions :
         /\ transactions[t].client = record.client
         /\ transactions[t].type = "Deposit"
         /\ transactions[t].amount > 0
    /\ accounts[record.client].available < record.amount[1]
    /\ Call(record).res = InsufficientFunds

(* C7: a row that does not parse is reported on the diagnostic channel and *)
(* the run goes on: main returns only when every row has been read, and    *)
(* then the account report has been written.                               *)
C7_BadRowDoesNotEndRun ==
  pc # "loop" => (rowsLeft = 0 /\ pc = "done")

(* C8: a Dispute of a TxId that is not stored fails with                   *)
(* MissingTransaction, a Dispute whose client differs from the stored      *)
(* transaction's client fails with InvalidClinetId, and in both cases no   *)
(* status and no balance changes.                                          *)
C8_DisputeRejected ==
  InputConsumed => \A record \in CallRecord :
    LET r == Call(record) IN
    record.type = "Dispute"
    => (/\ record.tx \notin DOMAIN transactions
           => (/\ r.res = MissingTransaction(record.tx)
               /\ Unchanged(r))
        /\ (/\ record.tx \in DOMAIN transactions
            /\ transactions[record.tx].client # record.client)
           => (/\ r.res = InvalidClinetId
               /\ Unchanged(r)))

C8_Witness ==
  \E record \in CallRecord : \E other \in CallRecord :
    /\ record.type = "Dispute" /\ other.type = "Dispute"
    /\ record.tx \in DOMAIN transactions
    /\ transactions[record.tx].type = "Deposit"
    /\ transactions[record.tx].status = "Processed"
    /\ transactions[record.tx].amount > 0
    /\ transactions[record.tx].client # record.client
    /\ Call(record).res = InvalidClinetId
    /\ other.tx \notin DOMAIN transactions
    /\ Call(other).res = MissingTransaction(other.tx)

(* C9: a Chargeback of a TxId that is not stored fails with                *)
(* MissingTransaction and changes neither store, so it locks nothing: a    *)
(* Deposit for that client that follows it, with a fresh TxId and an       *)
(* amount that is present and not negative, succeeds unless the account    *)
(* was locked before the Chargeback.                                       *)
C9_MissingChargebackDoesNotLock ==
  InputConsumed => \A record \in CallRecord :
    (record.type = "Chargeback" /\ record.tx \notin DOMAIN transactions)
    => LET cb == Call(record) IN
       (/\ cb.res = MissingTransaction(record.tx)
        /\ Unchanged(cb)
        /\ \A later \in CallRecord :
             (/\ later.type = "Deposit"
              /\ later.client = record.client
              /\ later.tx \notin DOMAIN transactions
              /\ later.amount # None
              /\ later.amount[1] >= 0
              /\ ~LockedIn(accounts, record.client))
             => LET r == process_csv_record(cb.accounts, cb.transactions,
                                            later)
                IN /\ r.res = Ok
                   /\ later.tx \in DOMAIN r.transactions
                   /\ AvailableOf(r.accounts, later.client)
                        = AvailableOf(accounts, later.client) + later.amount[1])

C9_Witness ==
  \E record \in CallRecord : \E later \in CallRecord :
    /\ record.type = "Chargeback"
    /\ record.tx \notin DOMAIN transactions
    /\ record.client \in DOMAIN accounts
    /\ accounts[record.client].held > 0
    /\ Call(record).res = MissingTransaction(record.tx)
    /\ later.type = "Deposit"
    /\ later.client = record.client
    /\ later.tx \notin DOMAIN transactions
    /\ later.amount # None /\ later.amount[1] > 0
    /\ process_csv_record(Call(record).accounts, Call(record).transactions,
                          later).res = Ok

(* C10: a Chargeback with the matching client on a Disputed deposit        *)
(* succeeds, takes the stored amount off that client's held, leaves        *)
(* available as it is, locks the account and sets the status to            *)
(* Chargedback; no other account and no other transaction changes.         *)
C10_ChargebackEffect ==
  InputConsumed => \A record \in CallRecord :
    LET r == Call(record) IN
    (/\ record.type = "Chargeback"
     /\ record.tx \in DOMAIN transactions
     /\ transactions[record.tx].client = record.client
     /\ transactions[record.tx].type = "Deposit"
     /\ transactions[record.tx].status = "Disputed")
    => (/\ r.res = Ok
        /\ record.client \in DOMAIN accounts
        /\ r.accounts =
             [accounts EXCEPT
                ![record.client].held = @ - transactions[record.tx].amount,
                ![record.client].status = "Locked"]
        /\ r.transactions =
             [transactions EXCEPT ![record.tx].status = "Chargedback"])

C10_Witness ==
  \E t \in DOMAIN transactions :
    /\ transactions[t].type = "Deposit"
    /\ transactions[t].status = "Chargedback"
    /\ transactions[t].amount > 0
    /\ LockedIn(accounts, transactions[t].client)

(* C11: once an account's locked flag is true it stays true: no Deposit,   *)
(* Withdrawal, Dispute, Resolve or Chargeback, successful or failed,       *)
(* clears it.                                                              *)
C11_LockedIsPermanent ==
  InputConsumed => \A record \in CallRecord :
    LET r == Call(record) IN
    \A c \in Clients :
      LockedIn(accounts, c)
      => (c \in DOMAIN r.accounts /\ r.accounts[c].status = "Locked")

C11_Witness ==
  \E c \in Clients :
    /\ LockedIn(accounts, c)
    /\ \A type \in TxType :
         \E record \in CallRecord :
           /\ record.type = type
           /\ record.client = c
           /\ LockedIn(Call(record).accounts, c)

(* The status transitions a record of the given type may make. *)
AllowedTransition(type, from, to) ==
  \/ type = "Dispute" /\ from \in {"Processed", "Resolved"} /\ to = "Disputed"
  \/ type = "Resolve" /\ from = "Disputed" /\ to = "Resolved"
  \/ type = "Chargeback" /\ from = "Disputed" /\ to = "Chargedback"

(* No call removes a stored transaction, and a call changes the status of  *)
(* a stored transaction only along an allowed transition of the            *)
(* transaction the record names; a Dispute changes only a deposit.         *)
StatusMovesAlongLifecycle ==
  /\ \A t \in DOMAIN transactions :
       transactions[t].type = "Withdrawal" => transactions[t].status = "Processed"
  /\ \A record \in CallRecord :
       LET r == Call(record) IN
       \A t \in DOMAIN transactions :
         /\ t \in DOMAIN r.transactions
         /\ r.transactions[t].status # transactions[t].status
            => (/\ record.tx = t
                /\ transactions[t].type = "Deposit"
                /\ AllowedTransition(record.type, transactions[t].status,
                                     r.transactions[t].status))

(* The Dispute records that name a stored transaction no Dispute applies   *)
(* to: a Withdrawal, or a deposit that is Disputed or Chargedback.         *)
IdleDispute(record) ==
  /\ record.type = "Dispute"
  /\ record.tx \in DOMAIN transactions
  /\ \/ transactions[record.tx].type = "Withdrawal"
     \/ transactions[record.tx].status \in {"Disputed", "Chargedback"}

(* C12 (as claimed): statuses change only along the lifecycle, and a       *)
(* Dispute of a Withdrawal or of a Disputed or Chargedback deposit         *)
(* succeeds without changing either store.                                 *)
C12_LifecycleAndIdleDisputeSucceeds ==
  InputConsumed =>
  /\ StatusMovesAlongLifecycle
  /\ \A record \in CallRecord :
       IdleDispute(record)
       => LET r == Call(record) IN r.res = Ok /\ Unchanged(r)

(* C12 (amended): statuses change only along the lifecycle, and a Dispute  *)
(* of a Withdrawal or of a Disputed or Chargedback deposit changes neither *)
(* store: it succeeds when its client is the stored transaction's client   *)
(* and fails with InvalidClinetId when it is not.                          *)
C12_LifecycleAndIdleDispute ==
  InputConsumed =>
  /\ StatusMovesAlongLifecycle
  /\ \A record \in CallRecord :
       IdleDispute(record)
       => LET r == Call(record) IN
          /\ Unchanged(r)
          /\ r.res = IF transactions[record.tx].client = record.client
                     THEN Ok ELSE InvalidClinetId

C12_Witness ==
  \E t \in DOMAIN transactions :
    /\ transactions[t].type = "Deposit"
    /\ transactions[t].status = "Disputed"
    /\ transactions[t].amount > 0
    /\ \E own \in CallRecord : \E other \in CallRecord :
         /\ own.tx = t /\ other.tx = t
         /\ IdleDispute(own) /\ IdleDispute(other)
         /\ own.client = transactions[t].client
         /\ other.client # transactions[t].client
         /\ Call(own).res = Ok
         /\ Call(other).res = InvalidClinetId
    /\ \E resolve \in CallRecord :
         /\ resolve.type = "Resolve" /\ resolve.tx = t
         /\ Call(resolve).transactions[t].status = "Resolved"
    /\ \E chargeback \in CallRecord :
         /\ chargeback.type = "Chargeback" /\ chargeback.tx = t
         /\ Call(chargeback).transactions[t].status = "Chargedback"

DisputeFamily == {"Dispute", "Resolve", "Chargeback"}

(* C13: a Dispute, Resolve or Chargeback returns MissingTransaction        *)
(* exactly when the TxId it names is not stored; when the TxId is stored   *)
(* and its status is not Disputed, a Resolve, and a Chargeback with the    *)
(* matching client, succeed and change neither store.                      *)
C13_MissingOnlyWhenAbsent ==
  InputConsumed => \A record \in CallRecord :
    record.type \in DisputeFamily
    => LET r == Call(record) IN
       /\ r.res[1] = "MissingTransaction" <=> record.tx \notin DOMAIN transactions
       /\ record.tx \notin DOMAIN transactions
          => r.res = MissingTransaction(record.tx)
       /\ (/\ record.tx \in DOMAIN transactions
           /\ transactions[record.tx].status # "Disputed"
           /\ \/ record.type = "Resolve"
              \/ /\ record.type = "Chargeback"
                 /\ transactions[record.tx].client = record.client)
          => (r.res = Ok /\ Unchanged(r))

C13_Witness ==
  \E resolve \in CallRecord : \E chargeback \in CallRecord : \E absent \in CallRecord :
    /\ resolve.type = "Resolve" /\ chargeback.type = "Chargeback"
    /\ resolve.tx \in DOMAIN transactions
    /\ chargeback.tx = resolve.tx
    /\ transactions[resolve.tx].status \in {"Processed", "Resolved"}
    /\ transactions[resolve.tx].amount > 0
    /\ chargeback.client = transactions[resolve.tx].client
    /\ Call(resolve).res = Ok
    /\ Call(chargeback).res = Ok
    /\ absent.type \in DisputeFamily
    /\ absent.tx \notin DOMAIN transactions
    /\ Call(absent).res = MissingTransaction(absent.tx)

(* The Deposit and Withdrawal records that pass the duplicate check and    *)
(* the lock check.                                                         *)
PassesDuplicateAndLock(record) ==
  /\ record.type \in StorableTypes
  /\ record.tx \notin DOMAIN transactions
  /\ ~LockedIn(accounts, record.client)

BalancesUnchanged(ret) ==
  \A c \in Clients :
    /\ AvailableOf(ret.accounts, c) = AvailableOf(accounts, c)
    /\ HeldOf(ret.accounts, c) = HeldOf(accounts, c)

(* C14: a Deposit or Withdrawal with a negative amount that is not         *)
(* rejected as duplicate or locked is rejected with InvalidAmount, stores  *)
(* no transaction and changes no balance.                                  *)
C14_NegativeAmountIsInvalidAmount ==
  InputConsumed => \A record \in CallRecord :
    (/\ PassesDuplicateAndLock(record)
     /\ record.amount # None
     /\ record.amount[1] < 0)
    => LET r == Call(record) IN
       /\ r.res = InvalidAmount
       /\ r.transactions = transactions
       /\ BalancesUnchanged(r)

(* C15: a Deposit or Withdrawal with no amount that is not rejected as     *)
(* duplicate or locked is rejected with MissingAmount, stores no           *)
(* transaction and changes no balance.                                     *)
C15_NoAmountIsMissingAmount ==
  InputConsumed => \A record \in CallRecord :
    (PassesDuplicateAndLock(record) /\ record.amount = None)
    => LET r == Call(record) IN
       /\ r.res = MissingAmount
       /\ r.transactions = transactions
       /\ BalancesUnchanged(r)

(* The text "1.00005". *)
OnePlusHalfUnit == Number(10 ^ 5 + 5, 5)

(* C16 (as claimed): the amount text 1.00005 deserializes to 1.0001. *)
C16_HalfRoundsUp ==
  (string = OnePlusHalfUnit /\ parsed # NotParsed)
  => parsed = ParsedOk(Some(10 ^ 4 + 1))

(* C16 (amended): the amount text 1.00005 deserializes to 1.0000, the tie  *)
(* going to the even fourth digit, as 1.00015 deserializes to 1.0002.      *)
C16_HalfRoundsToEven ==
  parsed # NotParsed
  => /\ string = OnePlusHalfUnit => parsed = ParsedOk(Some(10 ^ 4))
     /\ string = Number(10 ^ 5 + 15, 5) => parsed = ParsedOk(Some(10 ^ 4 + 2))

C16_Witness ==
  /\ string = OnePlusHalfUnit
  /\ parsed = ParsedOk(Some(10 ^ 4))

(* The fields of a stored transaction that are fixed at insertion. *)
Identity(transaction) ==
  [tx |-> transaction.tx, client |-> transaction.client,
   type |-> transaction.type, amount |-> transaction.amount]

(* C17: the Transaction Store is append-only and insert-once: every entry  *)
(* is a Deposit or a Withdrawal stored under its own TxId; a call removes  *)
(* no entry and changes no entry's TxId, client, kind or amount; a call    *)
(* adds an entry only when it is a successful Deposit or Withdrawal, and   *)
(* then exactly one, under the record's TxId that was not stored before,   *)
(* carrying the record's client, kind and amount.                          *)
C17_TransactionStoreAppendOnly ==
  InputConsumed =>
    /\ \A t \in DOMAIN transactions :
         transactions[t].type \in StorableTypes /\ transactions[t].tx = t
    /\ \A record \in CallRecord :
         LET r == Call(record) IN
         /\ DOMAIN transactions \subseteq DOMAIN r.transactions
         /\ \A t \in DOMAIN transactions :
              Identity(r.transactions[t]) = Identity(transactions[t])
         /\ DOMAIN r.transactions # DOMAIN transactions
            => /\ record.type \in StorableTypes
               /\ r.res = Ok
               /\ record.tx \notin DOMAIN transactions
               /\ DOMAIN r.transactions = DOMAIN transactions \cup {record.tx}
               /\ record.amount # None
               /\ Identity(r.transactions[record.tx])
                  = [tx |-> record.tx, client |-> record.client,
                     type |-> record.type, amount |-> record.amount[1]]

C17_Witness ==
  \E d \in DOMAIN transactions : \E w \in DOMAIN transactions :
  \E record \in CallRecord : \E chargeback \in CallRecord :
    /\ transactions[d].type = "Deposit" /\ transactions[d].status = "Disputed"
    /\ transactions[w].type = "Withdrawal"
    /\ record.type = "Deposit" /\ record.tx \notin DOMAIN transactions
    /\ DOMAIN Call(record).transactions = DOMAIN transactions \cup {record.tx}
    /\ chargeback.type = "Chargeback" /\ chargeback.tx = d
    /\ Call(chargeback).transactions[d].status = "Chargedback"
    /\ Identity(Call(chargeback).transactions[d]) = Identity(transactions[d])

(* The change of available a successful record of this kind makes. *)
Signed(type, amount) == IF type = "Deposit" THEN amount ELSE 0 - amount

(* C18: a successful Deposit (Withdrawal) of client c with amount a raises *)
(* (lowers) c's available by exactly a and adds exactly one transaction,   *)
(* under the record's TxId, with status Processed; c's held and lock flag, *)
(* every other account and every other stored transaction are unchanged.   *)
C18_DepositWithdrawalEffect ==
  InputConsumed => \A record \in CallRecord :
    LET r == Call(record)
        c == record.client
    IN (record.type \in StorableTypes /\ r.res = Ok)
       => /\ record.amount # None
          /\ c \in DOMAIN r.accounts
          /\ AvailableOf(r.accounts, c)
             = AvailableOf(accounts, c) + Signed(record.type, record.amount[1])
          /\ HeldOf(r.accounts, c) = HeldOf(accounts, c)
          /\ LockedIn(r.accounts, c) = LockedIn(accounts, c)
          /\ \A o \in Clients \ {c} :
               /\ o \in DOMAIN r.accounts <=> o \in DOMAIN accounts
               /\ o \in DOMAIN accounts => r.accounts[o] = accounts[o]
          /\ record.tx \notin DOMAIN transactions
          /\ r.transactions
             = transactions @@
               (record.tx :> [tx |-> record.tx, client |-> c,
                              amount |-> record.amount[1],
                              status |-> "Processed", type |-> record.type])

C18_Witness ==
  \E deposit \in CallRecord : \E withdrawal \in CallRecord :
    /\ deposit.type = "Deposit" /\ withdrawal.type = "Withdrawal"
    /\ deposit.client = withdrawal.client
    /\ deposit.amount # None /\ deposit.amount[1] > 0
    /\ withdrawal.amount = deposit.amount
    /\ transactions # << >>
    /\ \E o \in DOMAIN accounts : o # deposit.client
    /\ Call(deposit).res = Ok /\ Call(withdrawal).res = Ok
    /\ AvailableOf(Call(deposit).accounts, deposit.client)
       = AvailableOf(accounts, deposit.client) + deposit.amount[1]
    /\ AvailableOf(Call(withdrawal).accounts, deposit.client)
       = AvailableOf(accounts, deposit.client) - deposit.amount[1]
    /\ DOMAIN Call(withdrawal).transactions
       = DOMAIN transactions \cup {withdrawal.tx}

(* The stores after the two records are processed, first then second, from *)
(* the current stores.                                                     *)
Then(first, second) ==
  LET r == Call(first)
  IN process_csv_record(r.accounts, r.transactions, second)

DisputeOf(t) ==
  [type |-> "Dispute", client |-> transactions[t].client, tx |-> t,
   amount |-> None]

ResolveOf(t) ==
  [type |-> "Resolve", client |-> transactions[t].client, tx |-> t,
   amount |-> None]

(* C19: processing is order-sensitive: for every stored Processed deposit  *)
(* of a positive amount, its owner's Dispute followed by the Resolve       *)
(* leaves the owner's balances as they were, while the Resolve followed by *)
(* the Dispute leaves the amount held, so the two orders of the same two   *)
(* records end in different account balances.                              *)
C19_DisputeAndResolveDoNotCommute ==
  InputConsumed => \A t \in DOMAIN transactions :
    LET c == transactions[t].client
        a == transactions[t].amount
        dr == Then(DisputeOf(t), ResolveOf(t))
        rd == Then(ResolveOf(t), DisputeOf(t))
    IN (/\ transactions[t].type = "Deposit"
        /\ transactions[t].status = "Processed"
        /\ a > 0)
       => /\ dr.res = Ok /\ rd.res = Ok
          /\ AvailableOf(dr.accounts, c) = AvailableOf(accounts, c)
          /\ HeldOf(dr.accounts, c) = HeldOf(accounts, c)
          /\ AvailableOf(rd.accounts, c) = AvailableOf(accounts, c) - a
          /\ HeldOf(rd.accounts, c) = HeldOf(accounts, c) + a
          /\ dr.accounts # rd.accounts

C19_Witness ==
  \E t \in DOMAIN transactions :
    /\ transactions[t].type = "Deposit"
    /\ transactions[t].status = "Processed"
    /\ transactions[t].amount > 0
    /\ Then(DisputeOf(t), ResolveOf(t)).transactions[t].status = "Resolved"
    /\ Then(ResolveOf(t), DisputeOf(t)).transactions[t].status = "Disputed"
    /\ Then(DisputeOf(t), ResolveOf(t)).accounts
       # Then(ResolveOf(t), DisputeOf(t)).accounts

RECURSIVE DisputedDeposits(_, _)
(* The sum of the amounts of the stored deposits of client c with TxId at  *)
(* most t whose status is Disputed.                                        *)
DisputedDeposits(c, t) ==
  IF t = 0 THEN 0
  ELSE DisputedDeposits(c, t - 1)
       + (IF /\ t \in DOMAIN transactions
             /\ transactions[t].client = c
             /\ transactions[t].type = "Deposit"
             /\ transactions[t].status = "Disputed"
          THEN transactions[t].amount ELSE 0)

(* C20: every account's held balance equals the sum of the amounts of the  *)
(* deposits owned by that client that are currently Disputed, and is never *)
(* negative.                                                               *)
C20_HeldIsSumOfDisputedDeposits ==
  \A c \in Clients :
    /\ HeldOf(accounts, c) = DisputedDeposits(c, NumTx)
    /\ HeldOf(accounts, c) >= 0

RECURSIVE SumOf(_, _, _, _, _)
(* The sum of the amounts of the entries of txs with TxId at most t that   *)
(* belong to client c, are of the given kind and have a status in          *)
(* statuses.                                                               *)
SumOf(txs, c, type, statuses, t) ==
  IF t = 0 THEN 0
  ELSE SumOf(txs, c, type, statuses, t - 1)
       + (IF /\ t \in DOMAIN txs
             /\ txs[t].client = c
             /\ txs[t].type = type
             /\ txs[t].status \in statuses
          THEN txs[t].amount ELSE 0)

(* The total of client c's account, zero when c has none. *)
TotalOf(accts, c) == total(get_or_initialise(accts, c)[c])

RECURSIVE NetOf(_, _, _)
(* Over the entries of txs with TxId at most t: client c's deposits, minus *)
(* its withdrawals, minus its deposits whose status is Chargedback.        *)
NetOf(txs, c, t) ==
  IF t = 0 THEN 0
  ELSE NetOf(txs, c, t - 1)
       + (IF t \notin DOMAIN txs \/ txs[t].client # c THEN 0
          ELSE IF txs[t].type = "Withdrawal" THEN 0 - txs[t].amount
          ELSE IF txs[t].status = "Chargedback"
          THEN txs[t].amount - txs[t].amount
          ELSE txs[t].amount)

(* C21: conservation of funds: after any sequence of records, every        *)
(* account's total (available + held) equals the sum of that client's      *)
(* stored deposit amounts, minus the sum of its stored withdrawal amounts, *)
(* minus the sum of the amounts of its deposits whose status is            *)
(* Chargedback.                                                            *)
C21_ConservationOfFunds ==
  \A c \in Clients : TotalOf(accounts, c) = NetOf(transactions, c, NumTx)

C21_Witness ==
  \E c \in DOMAIN accounts :
    /\ SumOf(transactions, c, "Deposit", {"Chargedback"}, NumTx) > 0
    /\ TotalOf(accounts, c) = NetOf(transactions, c, NumTx)
    /\ TotalOf(accounts, c)
       = SumOf(transactions, c, "Deposit",
               {"Processed", "Disputed", "Resolved", "Chargedback"}, NumTx)
         - SumOf(transactions, c, "Deposit", {"Chargedback"}, NumTx)

(* Client c owns a stored deposit whose status is Chargedback. *)
HasChargedbackDeposit(txs, c) ==
  \E t \in DOMAIN txs :
    /\ txs[t].client = c
    /\ txs[t].type = "Deposit"
    /\ txs[t].status = "Chargedback"

(* C22: after any sequence of records, an account is locked if and only   *)
(* if the Transaction Store holds a deposit owned by that client whose     *)
(* status is Chargedback.                                                  *)
C22_LockedIffChargedbackDeposit ==
  \A c \in Clients :
    LockedIn(accounts, c) <=> HasChargedbackDeposit(transactions, c)

C22_Witness ==
  \E c \in Clients : \E o \in Clients :
    /\ LockedIn(accounts, c) /\ HasChargedbackDeposit(transactions, c)
    /\ ~LockedIn(accounts, o) /\ ~HasChargedbackDeposit(transactions, o)

====
